---- MODULE Spec2Model ----
(***************************************************************************)
(* Movie recommender: the vector store, the Vector Completeness Manager    *)
(* (ensure_vectors_exist), the Preference Aggregator                       *)
(* (get_user_preference_vector) and the Similarity Ranker                  *)
(* (recommend_movies, get_similar_movies) of backend/recommendation_service*)
(* and backend/tfidf_service.                                              *)
(*                                                                         *)
(* Numbers.  Stored vectors are tuples of naturals (TF-IDF weights are     *)
(* non-negative).  A cosine is kept exactly, as the reduced fraction of    *)
(* its square; a real number c + k*sqrt(r) is the record [c, k, r].        *)
(* Floating-point rounding is not modelled.  The cosine distance of a zero *)
(* vector is NaN (pgvector), which PostgreSQL orders after every number.   *)
(***************************************************************************)
EXTENDS Integers, Sequences, FiniteSets, TLC

\* ---------------------------------------------------------------- bounds
\* Movie IDs are 1..NumIds.
NumIds == 3
\* Longest list of movie IDs given to an operation.
MaxLen == 2
\* Largest limit asked for (the endpoints accept 1..100).
MaxLimit == 2
\* Longest list of movie IDs of each of two concurrent requests.
MaxBatch == 1
\* Dimension of a stored vector (512 in tfidf_service.py, scaled down).
VECTOR_DIM == 2

Ids == 1..NumIds
IdLists == UNION {[1..n -> Ids] : n \in 0..MaxLen}
Limits == 1..MaxLimit

\* no row in movie_vectors (a stored vector has VECTOR_DIM >= 1 components)
NoVec == <<>>
None == "None"
\* the float NaN
NaN == [nan |-> TRUE]
NoCall == [op |-> "none"]
NoRet == [op |-> "none"]

VARIABLES
    movies,      \* table movies: the IDs that have a Movie row
    vectors,     \* table movie_vectors: movie_id -> tfidf_vector, NoVec = no row
    modelSaved,  \* the vectorizer file exists at VECTORIZER_PATH
    pc,          \* "idle", or "ensure" inside the loop of ensure_vectors_exist
    call,        \* the locals of the running ensure_vectors_exist
    ret          \* how the last operation ended, NoRet while one is running

vars == <<movies, vectors, modelSaved, pc, call, ret>>

\* ------------------------------------------------------------ arithmetic
Min(a, b) == IF a <= b THEN a ELSE b

RECURSIVE Gcd(_, _)
Gcd(a, b) == IF b = 0 THEN a ELSE Gcd(b, a % b)

RECURSIVE SumTo(_, _)
\* f[1] + ... + f[n]
SumTo(f, n) == IF n = 0 THEN 0 ELSE f[n] + SumTo(f, n - 1)

Dot(a, b) == SumTo([i \in 1..Len(a) |-> a[i] * b[i]], Len(a))
Norm2(a) == Dot(a, a)
ZeroVector == [i \in 1..VECTOR_DIM |-> 0]

RECURSIVE VecSum(_)
\* component-wise sum of a non-empty sequence of vectors
VecSum(vs) ==
    IF Len(vs) = 1 THEN vs[1]
    ELSE [i \in 1..Len(vs[1]) |-> vs[1][i] + VecSum(Tail(vs))[i]]

RECURSIVE Count(_, _)
\* occurrences of x in the sequence s
Count(s, x) ==
    IF s = <<>> THEN 0
    ELSE (IF Head(s) = x THEN 1 ELSE 0) + Count(Tail(s), x)

Range(s) == {s[i] : i \in 1..Len(s)}

\* ------------------------------------------------------- tfidf_service.py
\* vectorizer.transform([text]).toarray()[0] for the composed text of movie
\* `id`: one weight per vocabulary term.  The vocabulary may be shorter or
\* longer than VECTOR_DIM; movie 1 has no text at all.
RawTfidf(id) ==
    [i \in 1..((id - 1) % (VECTOR_DIM + 2)) |-> (id + i) % 2]

RECURSIVE Join(_)
\* ' '.join(parts)
Join(parts) ==
    IF parts = <<>> THEN ""
    ELSE IF Len(parts) = 1 THEN parts[1]
    ELSE parts[1] \o " " \o Join(Tail(parts))

\* [x] * n
Repeat(x, n) == [i \in 1..n |-> x]

\* the truth value Python gives a str or None
Truthy(x) == x # None /\ x # ""

\* create_movie_text that repeats the overview whatever it holds
create_movie_text_unguarded(movie) ==
    LET genre_part == IF movie.genres # <<>>
                      THEN Repeat(Join(movie.genres), 5) ELSE <<>>
        overview_part == Repeat(IF movie.overview = None THEN ""
                                ELSE movie.overview, 3)
        keyword_part == IF movie.keywords # <<>>
                        THEN Repeat(Join(movie.keywords), 2) ELSE <<>>
    IN  Join(genre_part \o overview_part \o keyword_part)

\* create_movie_text, lines 61-77: movie.genres and movie.keywords are the
\* names of the related rows, movie.overview a text or None
create_movie_text(movie) ==
    LET genre_part == IF movie.genres # <<>>
                      THEN Repeat(Join(movie.genres), 5) ELSE <<>>
        overview_part == IF Truthy(movie.overview)
                         THEN Repeat(movie.overview, 3) ELSE <<>>
        keyword_part == IF movie.keywords # <<>>
                        THEN Repeat(Join(movie.keywords), 2) ELSE <<>>
    IN  Join(genre_part \o overview_part \o keyword_part)

\* the normalizer without its truncating branch
pad_or_truncate_vector_no_truncation(vector, target_dim) ==
    IF Len(vector) >= target_dim THEN vector
    ELSE vector \o [i \in 1..(target_dim - Len(vector)) |-> 0]

\* pad_or_truncate_vector, lines 91-100
pad_or_truncate_vector(vector, target_dim) ==
    LET current_dim == Len(vector)
    IN  IF current_dim = target_dim THEN vector
        ELSE IF current_dim > target_dim THEN SubSeq(vector, 1, target_dim)
        ELSE vector \o [i \in 1..(target_dim - current_dim) |-> 0]

\* generate_tfidf_vector once the vectorizer is loaded
generate_tfidf_vector(id) == pad_or_truncate_vector(RawTfidf(id), VECTOR_DIM)

\* The vectors the row of movie `id` may hold when the machine starts: the
\* one the persisted model gives, or one written under an earlier model.
StoredVectors(id) ==
    {generate_tfidf_vector(id), generate_tfidf_vector((id % NumIds) + 1)}

\* The site at which the store or the vectorizer raises during one loop
\* iteration, if the iteration gets there; "none": nothing raises.
EnsureFaults == {"none", "vector_lookup", "movie_lookup", "transform",
                 "save_lookup", "commit"}

\* save_movie_vector that reports success without committing the row
save_movie_vector_uncommitted(vecs, mvs, movie_id, vector, fault) ==
    IF fault = "save_lookup" \/ fault = "commit" \/ movie_id \notin mvs
    THEN [ok |-> FALSE, vectors |-> vecs]
    ELSE [ok |-> TRUE, vectors |-> vecs]

\* save_movie_vector whose update branch leaves the row as it was
save_movie_vector_keeps_existing(vecs, mvs, movie_id, vector, fault) ==
    IF fault = "save_lookup" \/ fault = "commit" \/ movie_id \notin mvs
    THEN [ok |-> FALSE, vectors |-> vecs]
    ELSE IF vecs[movie_id] # NoVec THEN [ok |-> TRUE, vectors |-> vecs]
    ELSE [ok |-> TRUE, vectors |-> [vecs EXCEPT ![movie_id] = vector]]

\* save_movie_vector whose failed commit leaves the row written
save_movie_vector_partial(vecs, mvs, movie_id, vector, fault) ==
    IF fault = "save_lookup" \/ movie_id \notin mvs
    THEN [ok |-> FALSE, vectors |-> vecs]
    ELSE IF fault = "add" /\ vecs[movie_id] = NoVec
    THEN [ok |-> FALSE, vectors |-> vecs]
    ELSE IF fault = "commit"
    THEN [ok |-> FALSE, vectors |-> [vecs EXCEPT ![movie_id] = vector]]
    ELSE [ok |-> TRUE, vectors |-> [vecs EXCEPT ![movie_id] = vector]]

\* save_movie_vector: [ok, vectors].  The lookup, the add of a new row (not
\* reached when the lookup found one), the commit, or the commit of a row
\* whose movie_id has no movie (foreign key) raises: rollback, False.
save_movie_vector(vecs, mvs, movie_id, vector, fault) ==
    IF fault = "save_lookup" \/ fault = "commit" \/ movie_id \notin mvs
    THEN [ok |-> FALSE, vectors |-> vecs]
    ELSE IF fault = "add" /\ vecs[movie_id] = NoVec
    THEN [ok |-> FALSE, vectors |-> vecs]
    ELSE [ok |-> TRUE, vectors |-> [vecs EXCEPT ![movie_id] = vector]]

\* load_vectorizer: None when the file does not exist
load_vectorizer(model) == IF model THEN "vectorizer" ELSE None

\* generate_tfidf_vector that answers the zero vector when there is no model
GenerateTfidfVectorOutcome_zero_without_model(movie_id, given, model) ==
    [status |-> "returned", error |-> None,
     value |-> IF ~given /\ load_vectorizer(model) = None
               THEN ZeroVector ELSE generate_tfidf_vector(movie_id)]

\* generate_tfidf_vector(movie, vectorizer) as called: with no vectorizer
\* given it loads the persisted one and raises ValueError when there is
\* none (lines 199-202); otherwise the vector of lines 204-213.
GenerateTfidfVectorOutcome(movie_id, given, model) ==
    IF ~given /\ load_vectorizer(model) = None
    THEN [status |-> "raised", error |-> "ValueError"]
    ELSE [status |-> "returned", error |-> None,
          value |-> generate_tfidf_vector(movie_id)]

\* generate_and_save_vector: [ok, vectors].  Every exception is caught.
generate_and_save_vector(vecs, mvs, model, movie_id, fault) ==
    IF load_vectorizer(model) = None THEN [ok |-> FALSE, vectors |-> vecs]
    ELSE IF fault = "transform" THEN [ok |-> FALSE, vectors |-> vecs]
    ELSE save_movie_vector(vecs, mvs, movie_id,
                           generate_tfidf_vector(movie_id), fault)

\* ------------------------------------------------ recommendation_service.py
\* ensure_vectors_exist, the result dictionary of lines 243-249
NewResult(movie_ids) ==
    [total |-> Len(movie_ids), already_exists |-> 0, newly_created |-> 0,
     failed |-> 0, failed_ids |-> <<>>]

\* the existence check without its filter on movie_id
VectorExists_any_row(vecs, movie_id) == \E id \in DOMAIN vecs : vecs[id] # NoVec

\* the existence check that never finds the row
VectorExists_never(vecs, movie_id) == FALSE

\* existing_vector is not None (line 255)
VectorExists(vecs, movie_id) == vecs[movie_id] # NoVec

\* result["already_exists"] += 1 (line 256)
CountExisting(result) ==
    [result EXCEPT !.already_exists = @ + 1]

\* the failure count without the append to failed_ids
CountFailed_no_append(result, movie_id) ==
    [result EXCEPT !.failed = @ + 1]

\* result["failed"] += 1; result["failed_ids"].append(movie_id)
CountFailed(result, movie_id) ==
    [result EXCEPT !.failed = @ + 1, !.failed_ids = Append(@, movie_id)]

\* result["newly_created"] += 1 (line 272)
CountCreated(result) ==
    [result EXCEPT !.newly_created = @ + 1]

\* without the `if not movie` guard, movie.title raises on None at line 268
MovieMissing_unguarded(c, vecs, movie_id) ==
    [call |-> c, vectors |-> vecs, error |-> "AttributeError"]

\* The branch of lines 261-266: the movie row is missing.
MovieMissing(c, vecs, movie_id) ==
    [call |-> [c EXCEPT !.i = @ + 1, !.lookups = @ + 1,
                        !.result = CountFailed(@, movie_id)],
     vectors |-> vecs, error |-> None]

\* lines 268-281 counting every generation as a success
GenerateBranch_counting_success(c, vecs, mvs, model, movie_id, fault) ==
    LET g == generate_and_save_vector(vecs, mvs, model, movie_id, fault)
    IN  [call |-> [c EXCEPT !.i = @ + 1, !.lookups = @ + 1,
                            !.generated = @ + 1,
                            !.result = CountCreated(@)],
         vectors |-> g.vectors, error |-> None]

\* Lines 268-281: generate and save, count the outcome.
GenerateBranch(c, vecs, mvs, model, movie_id, fault) ==
    LET g == generate_and_save_vector(vecs, mvs, model, movie_id, fault)
    IN  [call |-> [c EXCEPT !.i = @ + 1, !.lookups = @ + 1,
                            !.generated = @ + 1,
                            !.result = IF g.ok THEN CountCreated(@)
                                       ELSE CountFailed(@, movie_id)],
         vectors |-> g.vectors, error |-> None]

\* the iteration with the existence check answered from the store as it
\* was when the call started
EnsureIteration_stale(c, vecs, mvs, model, fault) ==
    LET movie_id == c.ids[c.i]
    IN  IF fault = "vector_lookup"
        THEN [call |-> c, vectors |-> vecs, error |-> "store"]
        ELSE IF VectorExists(c.start, movie_id)
        THEN [call |-> [c EXCEPT !.i = @ + 1, !.result = CountExisting(@)],
              vectors |-> vecs, error |-> None]
        ELSE IF fault = "movie_lookup"
        THEN [call |-> c, vectors |-> vecs, error |-> "store"]
        ELSE IF movie_id \notin mvs
        THEN MovieMissing(c, vecs, movie_id)
        ELSE GenerateBranch(c, vecs, mvs, model, movie_id, fault)

\* One iteration of the loop of ensure_vectors_exist on movie_ids[i]:
\* [call, vectors, error].  The two lookups (lines 253, 261) are outside
\* every try: when one raises, the exception leaves the function.
EnsureIteration(c, vecs, mvs, model, fault) ==
    LET movie_id == c.ids[c.i]
    IN  IF fault = "vector_lookup"
        THEN [call |-> c, vectors |-> vecs, error |-> "store"]
        ELSE IF VectorExists(vecs, movie_id)
        THEN [call |-> [c EXCEPT !.i = @ + 1, !.result = CountExisting(@)],
              vectors |-> vecs, error |-> None]
        ELSE IF fault = "movie_lookup"
        THEN [call |-> c, vectors |-> vecs, error |-> "store"]
        ELSE IF movie_id \notin mvs
        THEN MovieMissing(c, vecs, movie_id)
        ELSE GenerateBranch(c, vecs, mvs, model, movie_id, fault)

\* Whether the call just made repeats the call that just returned (the same
\* list, nothing in between), and what that call reported.
Again(r, movie_ids) ==
    IF r.op = "ensure" /\ r.status = "returned" /\ r.ids = movie_ids
    THEN [repeat |-> TRUE, failed |-> r.result.failed,
          newly_created |-> r.result.newly_created]
    ELSE [repeat |-> FALSE]

\* no preference vector: get_user_preference_vector returned None
NoPref == [none |-> TRUE]

RECURSIVE ResolvedVectors_once(_, _)
\* the list `vectors` with one entry per distinct listed ID that has a row
ResolvedVectors_once(movie_ids, vecs) ==
    IF movie_ids = <<>> THEN <<>>
    ELSE (IF vecs[Head(movie_ids)] # NoVec
             /\ Head(movie_ids) \notin Range(Tail(movie_ids))
          THEN <<vecs[Head(movie_ids)]>> ELSE <<>>)
         \o ResolvedVectors_once(Tail(movie_ids), vecs)

RECURSIVE ResolvedVectors(_, _)
\* the list `vectors` of lines 32-39: one entry per listed ID that has a row
ResolvedVectors(movie_ids, vecs) ==
    IF movie_ids = <<>> THEN <<>>
    ELSE (IF vecs[Head(movie_ids)] # NoVec
          THEN <<vecs[Head(movie_ids)]>> ELSE <<>>)
         \o ResolvedVectors(Tail(movie_ids), vecs)

\* get_user_preference_vector without the `if not vectors` return
get_user_preference_vector_unchecked(movie_ids, vecs) ==
    LET found == ResolvedVectors(movie_ids, vecs)
        sum == IF found = <<>> THEN ZeroVector ELSE VecSum(found)
    IN  [value |-> [sum |-> sum, n |-> Len(found), unit |-> Norm2(sum) > 0],
         mean |-> TRUE, divided |-> Norm2(sum) > 0]

\* get_user_preference_vector without a store fault.  The mean sum/n, and
\* after the division by its norm the unit vector along sum, is kept as
\* [sum, n, unit].  mean: np.mean ran (line 46); divided: line 51 ran.
get_user_preference_vector(movie_ids, vecs) ==
    LET found == ResolvedVectors(movie_ids, vecs)
    IN  IF movie_ids = <<>> \/ found = <<>>
        THEN [value |-> NoPref, mean |-> FALSE, divided |-> FALSE]
        ELSE LET sum == VecSum(found)
                 norm_positive == Norm2(sum) > 0
             IN  [value |-> [sum |-> sum, n |-> Len(found),
                             unit |-> norm_positive],
                  mean |-> TRUE, divided |-> norm_positive]

\* n/d in lowest terms
Frac(n, d) == LET g == Gcd(n, d) IN <<n \div g, d \div g>>

\* pgvector's a <=> q = 1 - cos(a, q), the real 1 - sqrt(r) with r = cos^2;
\* NaN when a or q is the zero vector.  The cosine does not change when q
\* is scaled by a positive number, so q may be the sum behind a mean.
CosineDistance(a, q) ==
    IF Norm2(a) = 0 \/ Norm2(q) = 0 THEN NaN
    ELSE [c |-> 1, k |-> 0 - 1,
          r |-> Frac(Dot(a, q) * Dot(a, q), Norm2(a) * Norm2(q))]

\* 1 - x on the reals c + k*sqrt(r); 1 - NaN = NaN
OneMinus(x) ==
    IF x = NaN THEN NaN ELSE [c |-> 1 - x.c, k |-> 0 - x.k, r |-> x.r]

\* the order of ORDER BY ... DESC
DistLeq_descending(x, y) ==
    \/ x = NaN
    \/ y # NaN /\ x.r[1] * y.r[2] <= y.r[1] * x.r[2]

\* x sorts before or with y in ORDER BY ... ASC over two distances:
\* 1 - sqrt(rx) <= 1 - sqrt(ry) iff rx >= ry, and NaN is the greatest value
DistLeq(x, y) ==
    \/ y = NaN
    \/ x # NaN /\ x.r[1] * y.r[2] >= y.r[1] * x.r[2]

\* FROM movies m JOIN movie_vectors mv ON m.id = mv.movie_id
Joined(mvs, vecs) == {id \in mvs : vecs[id] # NoVec}

\* the query without its WHERE m.id NOT IN (...)
RecommendCandidates_unfiltered(mvs, vecs, user_movie_ids, exclude_selected) ==
    {id \in mvs : vecs[id] # NoVec}

\* WHERE m.id NOT IN (excluded_ids), or no WHERE (lines 87-121)
RecommendCandidates(mvs, vecs, user_movie_ids, exclude_selected) ==
    IF exclude_selected
    THEN {id \in Joined(mvs, vecs) : id \notin Range(user_movie_ids)}
    ELSE Joined(mvs, vecs)

\* the query without its WHERE m.id != :movie_id
SimilarCandidates_unfiltered(mvs, vecs, movie_id) ==
    {id \in mvs : vecs[id] # NoVec}

\* WHERE m.id != :movie_id (line 195)
SimilarCandidates(mvs, vecs, movie_id) ==
    {id \in Joined(mvs, vecs) : id # movie_id}

\* ORDER BY mv.tfidf_vector <=> q LIMIT :limit: every order of the first
\* `limit` candidates the store may answer with (rows at the same distance
\* come in any order).
OrderByLimit(candidates, vecs, q, limit) ==
    LET k == Min(limit, Cardinality(candidates))
        d == [id \in candidates |-> CosineDistance(vecs[id], q)]
    IN  {s \in [1..k -> candidates] :
            /\ \A i, j \in 1..k : i < j =>
                   s[i] # s[j] /\ DistLeq(d[s[i]], d[s[j]])
            /\ \A id \in candidates \ Range(s) :
                   \A i \in 1..k : DistLeq(d[s[i]], d[id])}

\* SELECT m.id, ..., 1 - (mv.tfidf_vector <=> q) AS similarity
SelectRows(s, vecs, q) ==
    [i \in 1..Len(s) |->
        [id |-> s[i], similarity |-> OneMinus(CosineDistance(vecs[s[i]], q))]]

\* The site at which the store raises during one query operation, if the
\* operation gets there.
QueryFaults == {"none", "seed_lookup", "query", "detail_lookup"}

\* The try block of lines 123-153 and 200-229: the rows, or [] when the
\* query or a detail lookup (one per row) raises; fault: the site that
\* raised, "none" when no site the call reached did.
RankedRows(candidates, vecs, q, limit, fault) ==
    IF fault = "query" THEN {[rows |-> <<>>, fault |-> "query"]}
    ELSE {IF fault = "detail_lookup" /\ s # <<>>
          THEN [rows |-> <<>>, fault |-> "detail_lookup"]
          ELSE [rows |-> SelectRows(s, vecs, q), fault |-> "none"] :
            s \in OrderByLimit(candidates, vecs, q, limit)}

\* recommend_movies: the ways the call can end.  The lookups of
\* get_user_preference_vector (line 34) are outside the try.
recommend_movies(user_movie_ids, limit, exclude_selected, mvs, vecs, fault) ==
    LET p == get_user_preference_vector(user_movie_ids, vecs)
        returned == [op |-> "recommend", ids |-> user_movie_ids,
                     limit |-> limit, exclude_selected |-> exclude_selected,
                     status |-> "returned", error |-> None, pref |-> p]
    IN  IF fault = "seed_lookup" /\ user_movie_ids # <<>>
        THEN {[op |-> "recommend", ids |-> user_movie_ids,
               status |-> "raised", error |-> "store",
               fault |-> "seed_lookup"]}
        ELSE IF p.value = NoPref
        THEN {returned @@ [queried |-> FALSE, rows |-> <<>>,
                           fault |-> "none"]}
        ELSE {returned @@ [queried |-> TRUE, rows |-> r.rows,
                           fault |-> r.fault] :
                r \in RankedRows(
                    RecommendCandidates(mvs, vecs, user_movie_ids,
                                        exclude_selected),
                    vecs, p.value.sum, limit, fault)}

\* get_similar_movies: the ways the call can end.  The lookup of the base
\* vector (line 173) is outside the try.
get_similar_movies(movie_id, limit, mvs, vecs, fault) ==
    LET returned == [op |-> "similar", movie_id |-> movie_id,
                     limit |-> limit, status |-> "returned", error |-> None]
    IN  IF fault = "seed_lookup"
        THEN {[op |-> "similar", movie_id |-> movie_id,
               status |-> "raised", error |-> "store",
               fault |-> "seed_lookup"]}
        ELSE IF vecs[movie_id] = NoVec
        THEN {returned @@ [queried |-> FALSE, rows |-> <<>>,
                           fault |-> "none"]}
        ELSE {returned @@ [queried |-> TRUE, rows |-> r.rows,
                           fault |-> r.fault] :
                r \in RankedRows(SimilarCandidates(mvs, vecs, movie_id),
                                 vecs, vecs[movie_id], limit, fault)}

\* ----------------------------------------------------------- the machine
Init ==
    /\ movies \in SUBSET Ids
    /\ vectors \in [Ids -> UNION {StoredVectors(id) : id \in Ids} \cup {NoVec}]
    /\ \A id \in Ids : vectors[id] \in StoredVectors(id) \cup {NoVec}
    \* movie_vectors.movie_id is a foreign key to movies.id
    /\ \A id \in Ids : vectors[id] # NoVec => id \in movies
    /\ modelSaved \in BOOLEAN
    /\ pc = "idle"
    /\ call = NoCall
    /\ ret = NoRet

\* ensure_vectors_exist(movie_ids, db) is called: lines 243-249
EnsureCall ==
    /\ pc = "idle"
    /\ \E movie_ids \in IdLists :
         /\ ret = NoRet \/ (ret.op = "ensure" /\ ret.ids = movie_ids)
         /\ call' = [op |-> "ensure", ids |-> movie_ids, i |-> 1,
                  result |-> NewResult(movie_ids),
                     again |-> Again(ret, movie_ids),
                     lookups |-> 0, generated |-> 0]
    /\ pc' = "ensure"
    /\ ret' = NoRet
    /\ UNCHANGED <<movies, vectors, modelSaved>>

\* one iteration of the for loop, lines 251-281
EnsureIter ==
    /\ pc = "ensure"
    /\ call.i <= Len(call.ids)
    /\ \E fault \in EnsureFaults :
         LET out == EnsureIteration(call, vectors, movies, modelSaved, fault)
         IN  /\ vectors' = out.vectors
             /\ IF out.error = None
                THEN /\ call' = out.call
                     /\ UNCHANGED <<pc, ret>>
                ELSE /\ call' = NoCall
                     /\ pc' = "idle"
                     /\ ret' = [op |-> "ensure", status |-> "raised",
                                error |-> out.error, ids |-> call.ids,
                                again |-> call.again, at |-> call.i,
                                result |-> call.result]
    /\ UNCHANGED <<movies, modelSaved>>

\* return result, line 283
EnsureReturn ==
    /\ pc = "ensure"
    /\ call.i > Len(call.ids)
    /\ ret' = [op |-> "ensure", status |-> "returned", error |-> None,
               ids |-> call.ids, again |-> call.again, at |-> call.i,
               result |-> call.result, lookups |-> call.lookups,
               generated |-> call.generated]
    /\ call' = NoCall
    /\ pc' = "idle"
    /\ UNCHANGED <<movies, vectors, modelSaved>>

\* recommend_movies that writes the preference vector back to the row of
\* the first selected movie
RecommendMovies_storing ==
    /\ pc = "idle"
    /\ ret = NoRet
    /\ \E user_movie_ids \in IdLists, limit \in Limits,
          exclude_selected \in BOOLEAN, fault \in QueryFaults :
         /\ ret' \in recommend_movies(user_movie_ids, limit, exclude_selected,
                                      movies, vectors, fault)
         /\ vectors' = IF user_movie_ids # <<>>
                           /\ Head(user_movie_ids) \in movies
                        THEN [vectors EXCEPT
                                 ![Head(user_movie_ids)] = ZeroVector]
                        ELSE vectors
    /\ UNCHANGED <<movies, modelSaved, pc, call>>

\* recommend_movies(user_movie_ids, db, limit, exclude_selected)
RecommendMovies ==
    /\ pc = "idle"
    /\ ret = NoRet
    /\ \E user_movie_ids \in IdLists, limit \in Limits,
          exclude_selected \in BOOLEAN, fault \in QueryFaults :
         ret' \in recommend_movies(user_movie_ids, limit, exclude_selected,
                                   movies, vectors, fault)
    /\ UNCHANGED <<movies, vectors, modelSaved, pc, call>>

\* get_similar_movies(movie_id, db, limit)
GetSimilarMovies ==
    /\ pc = "idle"
    /\ ret = NoRet
    /\ \E movie_id \in Ids, limit \in Limits, fault \in QueryFaults :
         ret' \in get_similar_movies(movie_id, limit, movies, vectors, fault)
    /\ UNCHANGED <<movies, vectors, modelSaved, pc, call>>

\* get_user_preference_vector(movie_ids, db), called on its own
GetUserPreferenceVector ==
    /\ pc = "idle"
    /\ ret = NoRet
    /\ \E movie_ids \in IdLists, fault \in {"none", "seed_lookup"} :
         ret' = IF fault = "seed_lookup" /\ movie_ids # <<>>
                THEN [op |-> "preference", ids |-> movie_ids,
                      status |-> "raised", error |-> "store",
                      fault |-> "seed_lookup"]
                ELSE [op |-> "preference", ids |-> movie_ids,
                      status |-> "returned", error |-> None,
                      pref |-> get_user_preference_vector(movie_ids, vectors),
                      fault |-> "none"]
    /\ UNCHANGED <<movies, vectors, modelSaved, pc, call>>

\* The caller is done with what the operation returned or raised.  (A call
\* made with `ret` still in hand differs from one made after this step only
\* when it repeats ensure_vectors_exist on the same list.)
Respond ==
    /\ pc = "idle"
    /\ ret # NoRet
    /\ ret' = NoRet
    /\ UNCHANGED <<movies, vectors, modelSaved, pc, call>>

Next ==
    \/ EnsureCall
    \/ EnsureIter
    \/ EnsureReturn
    \/ RecommendMovies
    \/ GetSimilarMovies
    \/ GetUserPreferenceVector
    \/ Respond

Spec == Init /\ [][Next]_vars

\* The Vector Completeness Manager alone.  The two query operations change
\* neither the store nor `call`, and ensure_vectors_exist reads `ret` only
\* when it holds a result of its own, so it goes through the same states
\* here as under Spec.
NextEnsure ==
    \/ EnsureCall
    \/ EnsureIter
    \/ EnsureReturn
    \/ Respond

SpecEnsure == Init /\ [][NextEnsure]_vars

\* The Preference Aggregator and the Similarity Ranker alone, on every store.
NextQuery ==
    \/ RecommendMovies
    \/ GetSimilarMovies
    \/ GetUserPreferenceVector
    \/ Respond

\* None of the three operations reads the vectorizer file: the stores with
\* the file present are all the stores they can tell apart.
InitQuery == Init /\ modelSaved

SpecQuery == InitQuery /\ [][NextQuery]_vars

\* ------------------------------------------------ the Dimension Normalizer
\* The arrays given to pad_or_truncate_vector: shorter than, as long as and
\* longer than the dimension asked for.
RawVectors == UNION {[1..n -> 0..1] : n \in 0..(VECTOR_DIM + 2)}
TargetDims == 0..(VECTOR_DIM + 1)
PadCalls ==
    [op : {"pad_or_truncate_vector"}, vector : RawVectors,
     target_dim : TargetDims]
\* generate_tfidf_vector(movie) and generate_tfidf_vector(movie, vectorizer)
GenerateCalls ==
    [op : {"generate_tfidf_vector"}, movie_id : Ids, given : BOOLEAN]

\* No request is running and the tables are empty.
Quiet ==
    /\ movies = {}
    /\ vectors = [id \in Ids |-> NoVec]
    /\ pc = "idle"
    /\ ret = NoRet

\* The calls of the functions of tfidf_service.py that touch no table.
InitPad ==
    /\ Quiet
    /\ modelSaved \in BOOLEAN
    /\ call \in PadCalls \cup GenerateCalls

\* pad_or_truncate_vector(vector, target_dim), lines 91-100
PadOrTruncateVector ==
    /\ call.op = "pad_or_truncate_vector"
    /\ ret = NoRet
    /\ ret' = [op |-> "pad_or_truncate_vector", vector |-> call.vector,
               target_dim |-> call.target_dim,
               value |-> pad_or_truncate_vector(call.vector,
                                                call.target_dim)]
    /\ UNCHANGED <<movies, vectors, modelSaved, pc, call>>

\* generate_tfidf_vector(movie, vectorizer), lines 199-213
GenerateTfidfVector ==
    /\ call.op = "generate_tfidf_vector"
    /\ ret = NoRet
    /\ ret' = call @@ [model |-> modelSaved]
              @@ GenerateTfidfVectorOutcome(call.movie_id, call.given,
                                            modelSaved)
    /\ UNCHANGED <<movies, vectors, modelSaved, pc, call>>

NextPad ==
    \/ PadOrTruncateVector
    \/ GenerateTfidfVector

SpecPad == InitPad /\ [][NextPad]_vars

\* ---------------------------------------------------- concurrent requests
\* Two requests run ensure_vectors_exist at once, each in its own session
\* (database.py, get_db).  Here pc, call and ret hold one value per request.
\* A step is one statement sent to the database or one commit: PostgreSQL
\* runs each on the rows committed so far (READ COMMITTED).
Reqs == {1, 2}
BatchLists == UNION {[1..n -> Ids] : n \in 0..MaxBatch}

\* ensure_vectors_exist on movie_ids from the store vecs with nothing else
\* running and the store answering: [result, vectors]
RECURSIVE RunEnsure(_, _, _, _)
RunEnsure(c, vecs, mvs, model) ==
    IF c.i > Len(c.ids) THEN [result |-> c.result, vectors |-> vecs]
    ELSE LET out == EnsureIteration(c, vecs, mvs, model, "none")
         IN  RunEnsure(out.call, out.vectors, mvs, model)

\* the locals of a call of ensure_vectors_exist, lines 243-249
NewCall(movie_ids, vecs) ==
    [op |-> "ensure", ids |-> movie_ids, i |-> 1,
     result |-> NewResult(movie_ids), again |-> [repeat |-> FALSE],
     lookups |-> 0, generated |-> 0, existing |-> FALSE, start |-> vecs,
     raced |-> {}, overlapped |-> FALSE]

\* the other of the two requests
Other(r) == CHOOSE o \in Reqs : o # r
\* Request r is between the existence check and the commit for movie_id.
Saving(r, movie_id) ==
    /\ pc[r] \in {"save_lookup", "commit"}
    /\ call[r].ids[call[r].i] = movie_id

\* db.commit() of save_movie_vector (line 245) on the rows committed by
\* then.  existing: the lookup of line 230 found a row, whose vector is
\* updated; otherwise a row is inserted, which the primary key refuses
\* when the movie_id has a row by now (IntegrityError: rollback, False).
CommitOutcome(vecs, mvs, movie_id, vector, existing) ==
    IF existing
    THEN [ok |-> TRUE, vectors |-> [vecs EXCEPT ![movie_id] = vector]]
    ELSE IF vecs[movie_id] # NoVec \/ movie_id \notin mvs
    THEN [ok |-> FALSE, vectors |-> vecs]
    ELSE [ok |-> TRUE, vectors |-> [vecs EXCEPT ![movie_id] = vector]]

InitConcurrent ==
    /\ movies \in SUBSET Ids
    /\ vectors \in [Ids -> UNION {StoredVectors(id) : id \in Ids} \cup {NoVec}]
    /\ \A id \in Ids : vectors[id] \in StoredVectors(id) \cup {NoVec}
    /\ \A id \in Ids : vectors[id] # NoVec => id \in movies
    /\ modelSaved \in BOOLEAN
    /\ pc = [r \in Reqs |-> "check"]
    /\ call \in [Reqs -> {NewCall(l, vectors) : l \in BatchLists}]
    \* the calls touch the rows of the listed IDs only
    /\ \A id \in Ids :
          (\A r \in Reqs : id \notin Range(call[r].ids)) => id \notin movies
    /\ ret = [r \in Reqs |-> NoRet]

\* Lines 253-266 and the load of the model: the existence check, then,
\* without a row, the movie lookup and load_vectorizer.  (movies and the
\* vectorizer file do not change while the two calls run.)
EnsureCheck(r) ==
    /\ pc[r] = "check"
    /\ call[r].i <= Len(call[r].ids)
    /\ LET c == call[r]
           movie_id == c.ids[c.i]
       IN  IF VectorExists(vectors, movie_id)
           THEN /\ call' = [call EXCEPT ![r].i = @ + 1,
                                        ![r].result = CountExisting(@)]
                /\ pc' = pc
           ELSE IF movie_id \notin movies
           THEN /\ call' = [call EXCEPT
                               ![r] = MovieMissing(c, vectors, movie_id).call]
                /\ pc' = pc
           ELSE IF load_vectorizer(modelSaved) = None
           THEN /\ call' = [call EXCEPT
                               ![r].i = @ + 1, ![r].lookups = @ + 1,
                               ![r].generated = @ + 1,
                               ![r].result = CountFailed(@, movie_id)]
                /\ pc' = pc
           ELSE /\ call' = [call EXCEPT
                               ![r].lookups = @ + 1,
                               ![r].generated = @ + 1,
                               \* for the claims: the other request is past
                               \* the same check and has not committed
                               ![r].raced =
                                   IF Saving(Other(r), movie_id)
                                   THEN @ \cup {movie_id} ELSE @]
                /\ pc' = [pc EXCEPT ![r] = "save_lookup"]
    /\ UNCHANGED <<movies, vectors, modelSaved, ret>>

\* save_movie_vector, line 230: existing = ...first()
SaveLookup(r) ==
    /\ pc[r] = "save_lookup"
    /\ call' = [call EXCEPT
                   ![r].existing = vectors[call[r].ids[call[r].i]] # NoVec]
    /\ pc' = [pc EXCEPT ![r] = "commit"]
    /\ UNCHANGED <<movies, vectors, modelSaved, ret>>

\* save_movie_vector, lines 232-251, and the count of lines 271-277
SaveCommit(r) ==
    /\ pc[r] = "commit"
    /\ LET c == call[r]
           movie_id == c.ids[c.i]
           out == CommitOutcome(vectors, movies, movie_id,
                                generate_tfidf_vector(movie_id), c.existing)
       IN  /\ vectors' = out.vectors
           /\ call' = [call EXCEPT
                          ![r].i = @ + 1, ![r].existing = FALSE,
                          \* for the claims: the other request is in the
                          \* middle of a save
                          ![r].overlapped =
                              @ \/ pc[Other(r)] \in {"save_lookup", "commit"},
                          ![r].result = IF out.ok THEN CountCreated(@)
                                        ELSE CountFailed(@, movie_id)]
    /\ pc' = [pc EXCEPT ![r] = "check"]
    /\ UNCHANGED <<movies, modelSaved, ret>>

\* return result, line 283
EnsureDone(r) ==
    /\ pc[r] = "check"
    /\ call[r].i > Len(call[r].ids)
    /\ ret' = [ret EXCEPT ![r] = [op |-> "ensure", status |-> "returned",
                                   ids |-> call[r].ids,
                                   result |-> call[r].result]]
    /\ pc' = [pc EXCEPT ![r] = "done"]
    /\ UNCHANGED <<movies, vectors, modelSaved, call>>

NextConcurrent ==
    \E r \in Reqs :
        \/ EnsureCheck(r)
        \/ SaveLookup(r)
        \/ SaveCommit(r)
        \/ EnsureDone(r)

SpecConcurrent == InitConcurrent /\ [][NextConcurrent]_vars

\* ------------------------------------------------------- vectorization calls
GenerateAndSaveCalls == [op : {"generate_and_save_vector"}, movie_id : Ids]
GenerateAndSaveFaults == {"none", "transform", "save_lookup", "commit"}

\* Whether the vectorization call that ended with r failed.
Failed(r) ==
    \/ r.op = "generate_tfidf_vector" /\ r.status = "raised"
    \/ r.op = "generate_and_save_vector" /\ ~r.ok

\* A caller calls generate_tfidf_vector or generate_and_save_vector;
\* earlier_failed: its previous vectorization call failed.
CallVectorization ==
    /\ pc = "idle"
    /\ \/ ret = NoRet
       \/ ret.op \in {"generate_tfidf_vector", "generate_and_save_vector"}
    /\ \E c \in GenerateCalls \cup GenerateAndSaveCalls :
         call' = c @@ [earlier_failed |-> Failed(ret)]
    /\ ret' = NoRet
    /\ UNCHANGED <<movies, vectors, modelSaved, pc>>

\* generate_and_save_vector(movie, db), lines 265-274
GenerateAndSaveVector ==
    /\ call.op = "generate_and_save_vector"
    /\ ret = NoRet
    /\ \E fault \in GenerateAndSaveFaults :
         LET out == generate_and_save_vector(vectors, movies, modelSaved,
                                             call.movie_id, fault)
         IN  /\ vectors' = out.vectors
             /\ ret' = call @@ [status |-> "returned", error |-> None,
                                ok |-> out.ok, model |-> modelSaved,
                                fault |-> fault, before |-> vectors]
    /\ UNCHANGED <<movies, modelSaved, pc, call>>

\* The batch run has trained a vectorizer and save_vectorizer has written
\* the file (generate_tfidf_vectors.py, line 49).
VectorizerSaved ==
    /\ pc = "idle"
    /\ ~modelSaved
    /\ modelSaved' = TRUE
    /\ UNCHANGED <<movies, vectors, pc, call, ret>>

NextVectorize ==
    \/ CallVectorization
    \/ GenerateTfidfVector
    \/ GenerateAndSaveVector
    \/ VectorizerSaved
    \/ Respond

SpecVectorize == Init /\ [][NextVectorize]_vars

\* ------------------------------------------------------- model persistence
\* A TfidfVectorizer object: its tokenizer attribute and what it learned.
Tokenizers == {"KoreanTokenizer", "OtherTokenizer", None}
Vocabularies == {"vocabulary_a", "vocabulary_b"}
Vectorizers == [tokenizer : Tokenizers, vocabulary : Vocabularies]

\* The file at VECTORIZER_PATH: absent, cut short by a write that failed
\* after open(..., 'wb') had truncated it, or the pickle of an object.
NoFile == [exists |-> FALSE]
TruncatedFile == [exists |-> TRUE, complete |-> FALSE]
PickledFile(vectorizer) ==
    [exists |-> TRUE, complete |-> TRUE, pickled |-> vectorizer]
Files ==
    {NoFile, TruncatedFile}
      \cup {PickledFile([tokenizer |-> None, vocabulary |-> v]) :
                v \in Vocabularies}
Loadable(file) == file.exists /\ file.complete

\* where save_vectorizer raises: os.makedirs, open, pickle.dump
SaveVectorizerFaults == {"none", "makedirs", "open", "dump"}

\* save_vectorizer that puts the tokenizer back only after a good write
save_vectorizer_no_finally(vectorizer, file, fault) ==
    LET detached == [vectorizer EXCEPT !.tokenizer = None]
    IN  IF fault = "makedirs"
        THEN [status |-> "raised", vectorizer |-> vectorizer, file |-> file]
        ELSE IF fault = "open"
        THEN [status |-> "raised", vectorizer |-> detached, file |-> file]
        ELSE IF fault = "dump"
        THEN [status |-> "raised", vectorizer |-> detached,
              file |-> TruncatedFile]
        ELSE [status |-> "returned", vectorizer |-> vectorizer,
              file |-> PickledFile(detached)]

\* save_vectorizer, lines 148-160: [status, vectorizer, file], the object
\* and the file as the call leaves them
save_vectorizer(vectorizer, file, fault) ==
    LET original_tokenizer == vectorizer.tokenizer
        detached == [vectorizer EXCEPT !.tokenizer = None]
        \* finally: vectorizer.tokenizer = original_tokenizer
        restored == [detached EXCEPT !.tokenizer = original_tokenizer]
    IN  IF fault = "makedirs"
        THEN [status |-> "raised", vectorizer |-> vectorizer, file |-> file]
        ELSE IF fault = "open"
        THEN [status |-> "raised", vectorizer |-> restored, file |-> file]
        ELSE IF fault = "dump"
        THEN [status |-> "raised", vectorizer |-> restored,
              file |-> TruncatedFile]
        ELSE [status |-> "returned", vectorizer |-> restored,
              file |-> PickledFile(detached)]

\* load_vectorizer, lines 171-182, on the file as it is: None without a
\* file, pickle.load raising on a file cut short, else the unpickled object
\* with a new KoreanTokenizer
LoadVectorizerOutcome(file) ==
    IF ~file.exists
    THEN [status |-> "returned", error |-> None, none |-> TRUE]
    ELSE IF ~file.complete
    THEN [status |-> "raised", error |-> "UnpicklingError"]
    ELSE [status |-> "returned", error |-> None, none |-> FALSE,
          vectorizer |-> [file.pickled EXCEPT
                             !.tokenizer = "KoreanTokenizer"]]

SaveVectorizerCalls ==
    [op : {"save_vectorizer"}, vectorizer : Vectorizers, file : Files,
     fault : SaveVectorizerFaults]
LoadVectorizerCalls == [op : {"load_vectorizer"}, file : Files]

InitPersist ==
    /\ Quiet
    /\ call \in SaveVectorizerCalls \cup LoadVectorizerCalls
    /\ modelSaved = Loadable(call.file)

\* save_vectorizer(vectorizer), lines 139-160
SaveVectorizer ==
    /\ call.op = "save_vectorizer"
    /\ ret = NoRet
    /\ LET out == save_vectorizer(call.vectorizer, call.file, call.fault)
       IN  /\ ret' = call @@ [status |-> out.status, after |-> out.vectorizer,
                              written |-> out.file]
           /\ modelSaved' = Loadable(out.file)
    /\ UNCHANGED <<movies, vectors, pc, call>>

\* load_vectorizer(), lines 163-182: called on the file as found, or on the
\* file a save_vectorizer call has just left
LoadVectorizer ==
    /\ \/ call.op = "load_vectorizer" /\ ret = NoRet
       \/ ret.op = "save_vectorizer"
    /\ LET file == IF ret = NoRet THEN call.file ELSE ret.written
       IN  ret' = [op |-> "load_vectorizer", file |-> file, save |-> ret]
                    @@ LoadVectorizerOutcome(file)
    /\ UNCHANGED <<movies, vectors, modelSaved, pc, call>>

NextPersist ==
    \/ SaveVectorizer
    \/ LoadVectorizer

SpecPersist == InitPersist /\ [][NextPersist]_vars

\* ------------------------------------------------ the Weighted Text Composer
\* genres.name and keywords.name are NOT NULL strings, movies.overview is a
\* nullable text
GenreNames == {"", "g", "h"}
KeywordNames == {"", "k", "l"}
Overviews == {None, "", "o", "o p"}
NameLists(names) == UNION {[1..n -> names] : n \in 0..MaxLen}
MovieRecords ==
    [genres : NameLists(GenreNames), overview : Overviews,
     keywords : NameLists(KeywordNames)]

InitCompose ==
    /\ Quiet
    /\ modelSaved = TRUE
    /\ call \in [op : {"create_movie_text"}, movie : MovieRecords]

\* create_movie_text(movie), lines 46-77
CreateMovieText ==
    /\ call.op = "create_movie_text"
    /\ ret = NoRet
    /\ ret' = [op |-> "create_movie_text", movie |-> call.movie,
               text |-> create_movie_text(call.movie)]
    /\ UNCHANGED <<movies, vectors, modelSaved, pc, call>>

NextCompose == CreateMovieText

SpecCompose == InitCompose /\ [][NextCompose]_vars

\* ------------------------------------------------- the Vector Store writes
\* The vectors handed to save_movie_vector: what generate_tfidf_vector gives
\* for some movie, under this model or another.
SaveVectors == {generate_tfidf_vector(id) : id \in Ids}
SaveFaults == {"none", "save_lookup", "add", "commit"}

\* table movie_vectors as rows (movie_id is its primary key)
Rows(vecs) == {<<id, vecs[id]>> : id \in {i \in Ids : vecs[i] # NoVec}}
RowsOf(vecs, movie_id) == {r \in Rows(vecs) : r[1] = movie_id}

\* save_movie_vector(movie_id, vector, db), lines 228-251
SaveMovieVector ==
    /\ pc = "idle"
    /\ ret = NoRet
    /\ \E movie_id \in Ids, vector \in SaveVectors, fault \in SaveFaults :
         LET out == save_movie_vector(vectors, movies, movie_id, vector,
                                      fault)
         IN  /\ vectors' = out.vectors
             /\ ret' = [op |-> "save_movie_vector", movie_id |-> movie_id,
                        vector |-> vector, ok |-> out.ok, fault |-> fault,
                        before |-> vectors]
    /\ UNCHANGED <<movies, modelSaved, pc, call>>

NextSave ==
    \/ SaveMovieVector
    \/ Respond

\* save_movie_vector does not read the vectorizer file.
SpecSave == InitQuery /\ [][NextSave]_vars

\* ------------------------------------------- main.py, POST /recommend
\* the upper limit of request.limit (line 212)
MaxRequestLimit == 100
\* request.limit as sent: the valid limits and one value on either side
RequestLimits == {0} \cup Limits \cup {MaxRequestLimit + 1}

\* the HTTPException of lines 209-213, None when the request is accepted
Rejected(movie_ids, limit) ==
    IF movie_ids = <<>> THEN "At least one movie ID is required"
    ELSE IF limit < 1 \/ limit > MaxRequestLimit
    THEN "Limit must be between 1 and 100"
    ELSE None

\* get_recommendations is called: the two checks of lines 209-213, then
\* the call of ensure_vectors_exist of line 216
GetRecommendations ==
    /\ pc = "idle"
    /\ ret = NoRet
    /\ \E movie_ids \in IdLists, limit \in RequestLimits :
         IF Rejected(movie_ids, limit) # None
         THEN /\ ret' = [op |-> "get_recommendations", ids |-> movie_ids,
                         limit |-> limit, status_code |-> 400,
                         detail |-> Rejected(movie_ids, limit)]
              /\ UNCHANGED <<pc, call>>
         ELSE /\ call' = [op |-> "ensure", ids |-> movie_ids, i |-> 1,
                          result |-> NewResult(movie_ids),
                          again |-> [repeat |-> FALSE],
                          lookups |-> 0, generated |-> 0, limit |-> limit]
              /\ pc' = "ensure"
              /\ ret' = NoRet
    /\ UNCHANGED <<movies, vectors, modelSaved>>

\* ensure_vectors_exist returns (line 283) into vector_result (line 216);
\* lines 218-222 print
VectorResult ==
    /\ pc = "ensure"
    /\ call.i > Len(call.ids)
    /\ call' = [op |-> "recommend", ids |-> call.ids, limit |-> call.limit,
                vector_result |-> call.result]
    /\ pc' = "recommend"
    /\ UNCHANGED <<movies, vectors, modelSaved, ret>>

\* recommend_movies(request.movie_ids, db, request.limit) of line 225,
\* which reads the store through get_user_preference_vector, and the
\* response of lines 227-239.  An exception of recommend_movies leaves the
\* endpoint.
RecommendAndRespond ==
    /\ pc = "recommend"
    /\ \E fault \in QueryFaults :
         \E r \in recommend_movies(call.ids, call.limit, TRUE,
                                   movies, vectors, fault) :
            ret' = [op |-> "get_recommendations", ids |-> call.ids,
                    limit |-> call.limit] @@
                   (IF r.status = "raised"
                    THEN [status_code |-> 500, detail |-> r.error]
                    ELSE IF r.rows = <<>>
                    THEN [status_code |-> 404,
                          detail |-> "No recommendations found",
                          vector_generation |-> call.vector_result,
                          pref |-> r.pref]
                    ELSE [status_code |-> 200,
                          selected_movies |-> call.ids,
                          vector_generation |-> call.vector_result,
                          total_recommendations |-> Len(r.rows),
                          recommendations |-> r.rows,
                          pref |-> r.pref])
    /\ call' = NoCall
    /\ pc' = "idle"
    /\ UNCHANGED <<movies, vectors, modelSaved>>

\* One request at a time through the endpoint.  An exception that leaves
\* ensure_vectors_exist (EnsureIter) leaves the endpoint too.
NextPipeline ==
    \/ GetRecommendations
    \/ EnsureIter
    \/ VectorResult
    \/ RecommendAndRespond
    \/ Respond

SpecPipeline == Init /\ [][NextPipeline]_vars

\* ------------------------------------------- movie_service.py, delete_movie
\* the site at which the store raises during delete_movie, if it gets there
DeleteFaults == {"none", "lookup", "commit"}

\* delete_movie: [ok, movies, vectors, error].  Movie.vector (models.py,
\* line 46) has neither a delete cascade nor passive_deletes, so the flush
\* of db.commit() (line 168) loads the movie's MovieVector to set its
\* movie_id to NULL; movie_id is the primary key of movie_vectors (line 84)
\* and the unit of work raises AssertionError ("Dependency rule tried to
\* blank-out primary key column") before any DELETE is sent.  Every
\* exception ends in rollback and False (lines 173-176).
delete_movie(vecs, mvs, movie_id, fault) ==
    IF fault = "lookup"
    THEN [ok |-> FALSE, movies |-> mvs, vectors |-> vecs, error |-> "store"]
    ELSE IF movie_id \notin mvs
    THEN [ok |-> FALSE, movies |-> mvs, vectors |-> vecs, error |-> None]
    ELSE IF vecs[movie_id] # NoVec
    THEN [ok |-> FALSE, movies |-> mvs, vectors |-> vecs,
          error |-> "AssertionError"]
    ELSE IF fault = "commit"
    THEN [ok |-> FALSE, movies |-> mvs, vectors |-> vecs, error |-> "store"]
    ELSE [ok |-> TRUE, movies |-> mvs \ {movie_id}, vectors |-> vecs,
          error |-> None]

\* delete_movie(movie_id, db)
DeleteMovie ==
    /\ pc = "idle"
    /\ ret = NoRet
    /\ \E movie_id \in Ids, fault \in DeleteFaults :
         LET out == delete_movie(vectors, movies, movie_id, fault)
         IN  /\ movies' = out.movies
             /\ vectors' = out.vectors
             /\ ret' = [op |-> "delete_movie", movie_id |-> movie_id,
                        ok |-> out.ok, error |-> out.error, fault |-> fault,
                        movies_before |-> movies, before |-> vectors]
    /\ UNCHANGED <<modelSaved, pc, call>>

NextDelete ==
    \/ DeleteMovie
    \/ Respond

\* delete_movie does not read the vectorizer file.
SpecDelete == InitQuery /\ [][NextDelete]_vars

\* --------------------------------------- movie_service.py, save_movie_to_db
NoMovie == [none |-> TRUE]
\* the site at which the store or the vectorizer raises during
\* save_movie_to_db, if the call gets there
SaveMovieFaults == {"none", "exists_lookup", "movie_commit", "refresh",
                    "transform", "save_lookup", "commit"}

\* step 7 that hands a failed generation on to the caller's except, which
\* rolls back and returns None
GenerateAfterSave_propagating(vecs, mvs, model, movie_id, fault) ==
    LET g == generate_and_save_vector(vecs, mvs, model, movie_id, fault)
    IN  IF g.ok
        THEN [result |-> [id |-> movie_id], vectors |-> g.vectors,
              vector_saved |-> TRUE]
        ELSE [result |-> NoMovie, vectors |-> g.vectors,
              vector_saved |-> FALSE]

\* Step 7, lines 95-106: generate_and_save_vector in a try of its own,
\* whatever it returns or raises the movie is returned.
GenerateAfterSave(vecs, mvs, model, movie_id, fault) ==
    LET g == generate_and_save_vector(vecs, mvs, model, movie_id, fault)
    IN  [result |-> [id |-> movie_id], vectors |-> g.vectors,
         vector_saved |-> g.ok]

\* Steps 1 to 6, lines 25-93: [status, result, movies, fetched, saved].
\* fetched: get_movie_full_info was called; info: it returned the metadata;
\* saved: commit and refresh went through and step 7 is next.  The lookup of
\* line 26 is outside the try.
StoreMovie(mvs, movie_id, info, fault) ==
    IF fault = "exists_lookup"
    THEN [status |-> "raised", result |-> NoMovie, movies |-> mvs,
          fetched |-> FALSE, saved |-> FALSE]
    ELSE IF movie_id \in mvs
    THEN [status |-> "returned", result |-> [id |-> movie_id],
          movies |-> mvs, fetched |-> FALSE, saved |-> FALSE]
    ELSE IF ~info
    THEN [status |-> "returned", result |-> NoMovie, movies |-> mvs,
          fetched |-> TRUE, saved |-> FALSE]
    ELSE IF fault = "movie_commit"
    THEN [status |-> "returned", result |-> NoMovie, movies |-> mvs,
          fetched |-> TRUE, saved |-> FALSE]
    ELSE IF fault = "refresh"
    THEN [status |-> "returned", result |-> NoMovie,
          movies |-> mvs \cup {movie_id}, fetched |-> TRUE, saved |-> FALSE]
    ELSE [status |-> "returned", result |-> [id |-> movie_id],
          movies |-> mvs \cup {movie_id}, fetched |-> TRUE, saved |-> TRUE]

\* save_movie_to_db(movie_id, db) up to the commit of the movie
SaveMovieToDb ==
    /\ pc = "idle"
    /\ ret = NoRet
    /\ \E movie_id \in Ids, info \in BOOLEAN, fault \in SaveMovieFaults :
         LET out == StoreMovie(movies, movie_id, info, fault)
             r == [op |-> "save_movie_to_db", movie_id |-> movie_id,
                   status |-> out.status, result |-> out.result,
                   fetched |-> out.fetched, existed |-> movie_id \in movies,
                   movies_before |-> movies, before |-> vectors]
         IN  /\ movies' = out.movies
             /\ IF out.saved
                THEN /\ pc' = "vector"
                     /\ call' = r @@ [fault |-> fault]
                     /\ ret' = ret
                ELSE /\ ret' = r @@ [generated |-> FALSE,
                                     vector_saved |-> FALSE]
                     /\ UNCHANGED <<pc, call>>
    /\ UNCHANGED <<vectors, modelSaved>>

\* save_movie_to_db, step 7 and the return of line 106
SaveMovieGenerate ==
    /\ pc = "vector"
    /\ LET out == GenerateAfterSave(vectors, movies, modelSaved,
                                    call.movie_id, call.fault)
       IN  /\ vectors' = out.vectors
           /\ ret' = [op |-> "save_movie_to_db", movie_id |-> call.movie_id,
                      status |-> "returned", result |-> out.result,
                      fetched |-> TRUE, existed |-> FALSE,
                      movies_before |-> call.movies_before,
                      before |-> call.before, generated |-> TRUE,
                      vector_saved |-> out.vector_saved]
    /\ pc' = "idle"
    /\ call' = NoCall
    /\ UNCHANGED <<movies, modelSaved>>

NextSaveMovie ==
    \/ SaveMovieToDb
    \/ SaveMovieGenerate
    \/ Respond

SpecSaveMovie == Init /\ [][NextSaveMovie]_vars

\* ------------------------------- ensure_vectors_exist on a list with repeats
\* ensure_vectors_exist(movie_ids, db) is called (lines 243-249); start: the
\* vector store at the call, for the claims
EnsureCallFrom ==
    /\ pc = "idle"
    /\ ret = NoRet
    /\ \E movie_ids \in IdLists :
         call' = [op |-> "ensure", ids |-> movie_ids, i |-> 1,
                  result |-> NewResult(movie_ids),
                  again |-> [repeat |-> FALSE],
                  lookups |-> 0, generated |-> 0, start |-> vectors]
    /\ pc' = "ensure"
    /\ UNCHANGED <<movies, vectors, modelSaved, ret>>

NextRepeats ==
    \/ EnsureCallFrom
    \/ EnsureIter
    \/ EnsureReturn
    \/ Respond

SpecRepeats == Init /\ [][NextRepeats]_vars

\* ------------------------------------- generate_tfidf_vectors.py, main
\* db.query(Movie).all(): the movies of the store in the order the store
\* returns them
MovieLists(mvs) ==
    {l \in [1..Cardinality(mvs) -> mvs] :
        \A i, j \in DOMAIN l : i # j => l[i] # l[j]}

\* create_and_train_vectorizer, lines 119-136 of tfidf_service.py: a
\* TfidfVectorizer with a KoreanTokenizer, fitted to the texts of the movies
create_and_train_vectorizer(vocabulary) ==
    [tokenizer |-> "KoreanTokenizer", vocabulary |-> vocabulary]

\* where one iteration of the loop of lines 56-73 fails, if it gets there
BatchFaults == {"none", "transform", "save_lookup", "add", "commit"}

\* the iteration that ends the loop at the first failure
BatchIteration_stopping(c, vecs, mvs, fault) ==
    LET movie_id == c.movies[c.i]
        s == save_movie_vector(vecs, mvs, movie_id,
                               generate_tfidf_vector(movie_id), fault)
    IN  IF fault # "transform" /\ s.ok
        THEN [call |-> [c EXCEPT
                           !.i = @ + 1, !.success_count = @ + 1,
                           !.written = Append(@, [movie_id |-> movie_id,
                                                  by |-> c.vectorizer,
                                                  file |-> c.file])],
              vectors |-> s.vectors]
        ELSE [call |-> [c EXCEPT !.i = Len(c.movies) + 1,
                                 !.error_count = @ + 1],
              vectors |-> vecs]

\* One iteration of the loop, lines 56-73: generate_tfidf_vector with the
\* vectorizer in hand (nothing is loaded), save_movie_vector, and the count
\* of the outcome.  written: the vectors saved, each with the vectorizer
\* that produced it and the vectorizer file at that moment.
BatchIteration(c, vecs, mvs, fault) ==
    LET movie_id == c.movies[c.i]
        g == IF fault = "transform"
             THEN [status |-> "raised", error |-> "transform"]
             ELSE GenerateTfidfVectorOutcome(movie_id, TRUE, FALSE)
    IN  IF g.status = "raised"
        THEN [call |-> [c EXCEPT !.i = @ + 1, !.error_count = @ + 1],
              vectors |-> vecs]
        ELSE LET s == save_movie_vector(vecs, mvs, movie_id, g.value, fault)
             IN  IF s.ok
                 THEN [call |-> [c EXCEPT
                                    !.i = @ + 1, !.success_count = @ + 1,
                                    !.written =
                                        Append(@, [movie_id |-> movie_id,
                                                   by |-> c.vectorizer,
                                                   file |-> c.file])],
                       vectors |-> s.vectors]
                 ELSE [call |-> [c EXCEPT !.i = @ + 1,
                                          !.error_count = @ + 1],
                       vectors |-> vecs]

\* what main leaves behind when it ends at stage `at`
BatchEnd(c, status, at) ==
    [op |-> "batch", status |-> status, at |-> at, movies |-> c.movies,
     trained |-> c.trained, saved |-> c.saved, vectorizer |-> c.vectorizer,
     file |-> c.file, file_before |-> c.file_before, before |-> c.before,
     success_count |-> c.success_count, error_count |-> c.error_count,
     written |-> c.written]

\* the script starts on any store and any vectorizer file
InitBatch ==
    /\ movies \in SUBSET Ids
    /\ vectors \in [Ids -> UNION {StoredVectors(id) : id \in Ids} \cup {NoVec}]
    /\ \A id \in Ids : vectors[id] \in StoredVectors(id) \cup {NoVec}
    /\ \A id \in Ids : vectors[id] # NoVec => id \in movies
    /\ \E file \in Files :
         /\ modelSaved = Loadable(file)
         /\ call = [op |-> "batch", movies |-> <<>>, i |-> 1,
                    trained |-> FALSE, saved |-> FALSE,
                    vectorizer |-> [none |-> TRUE],
                    file |-> file, file_before |-> file, before |-> vectors,
                    success_count |-> 0, error_count |-> 0, written |-> <<>>]
    /\ pc = "load"
    /\ ret = NoRet

\* Step 1, lines 35-41: load the movies; return when there is none.  An
\* exception is fatal (lines 91-95).
LoadMovies ==
    /\ pc = "load"
    /\ \E fault \in {"none", "query"}, l \in MovieLists(movies) :
         IF fault = "query"
         THEN /\ ret' = BatchEnd(call, "exit", "load")
              /\ pc' = "idle"
              /\ call' = NoCall
         ELSE IF l = <<>>
         THEN /\ ret' = BatchEnd(call, "returned", "load")
              /\ pc' = "idle"
              /\ call' = NoCall
         ELSE /\ call' = [call EXCEPT !.movies = l]
              /\ pc' = "train"
              /\ ret' = ret
    /\ UNCHANGED <<movies, vectors, modelSaved>>

\* Step 2, line 45: vectorizer = create_and_train_vectorizer(movies);
\* fit raises when no term is left after pruning
TrainVectorizer ==
    /\ pc = "train"
    /\ \E fault \in {"none", "fit"}, vocabulary \in Vocabularies :
         IF fault = "fit"
         THEN /\ ret' = BatchEnd(call, "exit", "train")
              /\ pc' = "idle"
              /\ call' = NoCall
         ELSE /\ call' = [call EXCEPT
                             !.trained = TRUE,
                             !.vectorizer =
                                 create_and_train_vectorizer(vocabulary)]
              /\ pc' = "persist"
              /\ ret' = ret
    /\ UNCHANGED <<movies, vectors, modelSaved>>

\* Step 3, line 49: save_vectorizer(vectorizer); an exception is fatal
PersistVectorizer ==
    /\ pc = "persist"
    /\ \E fault \in SaveVectorizerFaults :
         LET out == save_vectorizer(call.vectorizer, call.file, fault)
             c == [call EXCEPT !.vectorizer = out.vectorizer,
                               !.file = out.file,
                               !.saved = out.status = "returned"]
         IN  /\ modelSaved' = Loadable(out.file)
             /\ IF out.status = "raised"
                THEN /\ ret' = BatchEnd(c, "exit", "persist")
                     /\ pc' = "idle"
                     /\ call' = NoCall
                ELSE /\ call' = c
                     /\ pc' = "loop"
                     /\ ret' = ret
    /\ UNCHANGED <<movies, vectors>>

\* Step 4, one iteration of the loop of lines 56-73
BatchIter ==
    /\ pc = "loop"
    /\ call.i <= Len(call.movies)
    /\ \E fault \in BatchFaults :
         LET out == BatchIteration(call, vectors, movies, fault)
         IN  /\ call' = out.call
             /\ vectors' = out.vectors
    /\ UNCHANGED <<movies, modelSaved, pc, ret>>

\* Step 5, lines 75-89: the summary
BatchSummary ==
    /\ pc = "loop"
    /\ call.i > Len(call.movies)
    /\ ret' = BatchEnd(call, "returned", "summary")
    /\ pc' = "idle"
    /\ call' = NoCall
    /\ UNCHANGED <<movies, vectors, modelSaved>>

NextBatch ==
    \/ LoadMovies
    \/ TrainVectorizer
    \/ PersistVectorizer
    \/ BatchIter
    \/ BatchSummary

SpecBatch == InitBatch /\ [][NextBatch]_vars

\* ------------------------------------------ init_database.py, wait_for_db
\* the largest max_retries tried (30 by default in the source)
MaxRetries == 4
\* delay: time.sleep raises ValueError on a negative length
Delays == {-1, 0, 1, 2}
\* how a connection attempt (lines 37-38) ends: connected and closed,
\* psycopg2.OperationalError, or another exception
AttemptOutcomes == {"connected", "OperationalError", "Error"}

\* the handler that sleeps after every failed attempt
AfterOperationalError_always_sleeping(i, max_retries) == "sleep"

\* the except branch of lines 41-48 in iteration i (from 0): sleep and go
\* on, or return False after the last attempt
AfterOperationalError(i, max_retries) ==
    IF i < max_retries - 1 THEN "sleep" ELSE "return False"

\* wait_for_db(max_retries, delay) is called; trace: the attempts and
\* sleeps made so far, in order
InitWait ==
    \* the function touches no table and no file
    /\ movies = {}
    /\ vectors = [id \in Ids |-> NoVec]
    /\ modelSaved = FALSE
    /\ ret = NoRet
    /\ \E max_retries \in 0..MaxRetries, delay \in Delays :
         call = [op |-> "wait_for_db", max_retries |-> max_retries,
                 delay |-> delay, i |-> 0, trace |-> <<>>]
    /\ pc = "attempt"

\* what the call leaves behind when it ends
WaitEnd(c, status, value, trace) ==
    [op |-> "wait_for_db", max_retries |-> c.max_retries,
     delay |-> c.delay, status |-> status, value |-> value,
     trace |-> trace]

\* one pass through the try of lines 36-48
Connect ==
    /\ pc = "attempt"
    /\ call.i < call.max_retries
    /\ \E outcome \in AttemptOutcomes :
         LET trace == Append(call.trace, outcome)
         IN  IF outcome = "connected"
             THEN /\ ret' = WaitEnd(call, "returned", TRUE, trace)
                  /\ pc' = "idle"
                  /\ call' = NoCall
             ELSE IF outcome = "Error"
             THEN /\ ret' = WaitEnd(call, "raised", FALSE, trace)
                  /\ pc' = "idle"
                  /\ call' = NoCall
             ELSE IF AfterOperationalError(call.i, call.max_retries) = "sleep"
             THEN /\ call' = [call EXCEPT !.trace = trace]
                  /\ pc' = "sleep"
                  /\ ret' = ret
             ELSE /\ ret' = WaitEnd(call, "returned", FALSE, trace)
                  /\ pc' = "idle"
                  /\ call' = NoCall
    /\ UNCHANGED <<movies, vectors, modelSaved>>

\* time.sleep(delay), line 44, and the next turn of the loop
Sleep ==
    /\ pc = "sleep"
    /\ IF call.delay < 0
       THEN /\ ret' = WaitEnd(call, "raised", FALSE, call.trace)
            /\ pc' = "idle"
            /\ call' = NoCall
       ELSE /\ call' = [call EXCEPT !.i = @ + 1,
                                    !.trace = Append(@, "sleep")]
            /\ pc' = "attempt"
            /\ ret' = ret
    /\ UNCHANGED <<movies, vectors, modelSaved>>

\* the range is used up: return False, line 49
RetriesExhausted ==
    /\ pc = "attempt"
    /\ call.i >= call.max_retries
    /\ ret' = WaitEnd(call, "returned", FALSE, call.trace)
    /\ pc' = "idle"
    /\ call' = NoCall
    /\ UNCHANGED <<movies, vectors, modelSaved>>

NextWait ==
    \/ Connect
    \/ Sleep
    \/ RetriesExhausted

SpecWait == InitWait /\ [][NextWait]_vars

\* Every connection attempt and every sleep comes to an end, and the
\* interpreter goes on with the next statement.
FairWait == SpecWait /\ WF_vars(NextWait)

\* ------------------------------------------------------------ the claims
EnsureReturned == ret.op = "ensure" /\ ret.status = "returned"
QueryReturned(op) == ret.op = op /\ ret.status = "returned"
AllExisting(result, movie_ids) ==
    /\ result.already_exists = Len(movie_ids)
    /\ result.newly_created = 0
    /\ result.failed = 0

\* C1, as stated: whenever ensure_vectors_exist is called twice in a row
\* with the same list, the second call reports already_exists = the length
\* of the list, newly_created = 0 and failed = 0.
C1_SecondCallAllExisting ==
    (EnsureReturned /\ ret.again.repeat) => AllExisting(ret.result, ret.ids)

\* C1, amended: when the first of two calls in a row with the same list
\* reported failed = 0, the second call, when it returns, reports
\* already_exists = the length of the list, newly_created = 0, failed = 0.
C1_SecondCallAfterCleanFirst ==
    (EnsureReturned /\ ret.again.repeat /\ ret.again.failed = 0)
        => AllExisting(ret.result, ret.ids)

\* a second call has returned after a first one that created vectors for a
\* list of two different IDs and reported no failure
C1_Witness ==
    /\ EnsureReturned
    /\ ret.again.repeat
    /\ ret.again.failed = 0
    /\ ret.again.newly_created >= 1
    /\ Len(ret.ids) = 2
    /\ ret.ids[1] # ret.ids[2]

\* C2: recommend_movies with exclude_selected at its default never returns
\* a row whose id is in user_movie_ids, and never more than limit rows.
C2_RecommendExcludesSelected ==
    (QueryReturned("recommend") /\ ret.exclude_selected) =>
        /\ Len(ret.rows) <= ret.limit
        /\ \A i \in 1..Len(ret.rows) : ret.rows[i].id \notin Range(ret.ids)

\* recommend_movies returned exactly limit rows while a selected movie and
\* one more movie outside the result have stored vectors
C2_Witness ==
    /\ QueryReturned("recommend")
    /\ ret.exclude_selected
    /\ ret.rows # <<>>
    /\ Len(ret.rows) = ret.limit
    /\ \E id \in Range(ret.ids) : vectors[id] # NoVec
    /\ \E id \in Ids \ Range(ret.ids) :
          /\ vectors[id] # NoVec
          /\ \A i \in 1..Len(ret.rows) : ret.rows[i].id # id

\* C3: the list get_similar_movies(movie_id) returns never holds an entry
\* whose id is movie_id, and never more than limit entries.
C3_SimilarExcludesItself ==
    QueryReturned("similar") =>
        /\ Len(ret.rows) <= ret.limit
        /\ \A i \in 1..Len(ret.rows) : ret.rows[i].id # ret.movie_id

\* get_similar_movies returned exactly limit rows for a movie that has a
\* vector, leaving out another movie that has one
C3_Witness ==
    /\ QueryReturned("similar")
    /\ ret.rows # <<>>
    /\ Len(ret.rows) = ret.limit
    /\ vectors[ret.movie_id] # NoVec
    /\ \E id \in Ids \ {ret.movie_id} :
          /\ vectors[id] # NoVec
          /\ \A i \in 1..Len(ret.rows) : ret.rows[i].id # id

\* The query vector of the returned call, and the items it may return.
QueryVector ==
    IF ret.op = "recommend" THEN ret.pref.value.sum ELSE vectors[ret.movie_id]
Eligible ==
    {id \in movies :
        /\ vectors[id] # NoVec
        /\ IF ret.op = "recommend"
           THEN ret.exclude_selected => id \notin Range(ret.ids)
           ELSE id # ret.movie_id}
\* cos(a, q) >= cos(b, q), a zero vector (distance NaN) coming last
AtLeastAsClose(a, b, q) ==
    \/ Norm2(b) = 0 \/ Norm2(q) = 0
    \/ /\ Norm2(a) # 0
       /\ Dot(a, q) * Dot(a, q) * Norm2(b) >= Dot(b, q) * Dot(b, q) * Norm2(a)
RowIds == {ret.rows[i].id : i \in 1..Len(ret.rows)}

\* C4: when the similarity query ran and nothing raised, the list that
\* recommend_movies or get_similar_movies returns is ordered by
\* non-decreasing cosine distance to the query vector, holds the
\* min(limit, number of eligible items) closest eligible items (eligible:
\* has a stored vector and is not excluded), and each entry's similarity is
\* 1 minus its cosine distance.
C4_RankedByCosineDistance ==
    ((QueryReturned("recommend") \/ QueryReturned("similar"))
      /\ ret.queried /\ ret.fault = "none") =>
        LET eligible == Eligible
            q == QueryVector
            n == Len(ret.rows)
            row_ids == RowIds
            v == [i \in 1..n |-> vectors[ret.rows[i].id]]
        IN  /\ n = Min(ret.limit, Cardinality(eligible))
            /\ Cardinality(row_ids) = n
            /\ row_ids \subseteq eligible
            /\ \A i, j \in 1..n : i < j => AtLeastAsClose(v[i], v[j], q)
            /\ \A id \in eligible \ row_ids : \A i \in 1..n :
                  AtLeastAsClose(v[i], vectors[id], q)
            /\ \A i \in 1..n :
                  ret.rows[i].similarity = OneMinus(CosineDistance(v[i], q))

\* two rows were returned, the first strictly closer than the second, and a
\* third eligible item was cut off by the limit
C4_Witness ==
    /\ QueryReturned("recommend") \/ QueryReturned("similar")
    /\ ret.queried
    /\ ret.fault = "none"
    /\ Len(ret.rows) = 2
    /\ Cardinality(Eligible) > 2
    /\ ~AtLeastAsClose(vectors[ret.rows[2].id], vectors[ret.rows[1].id],
                       QueryVector)

\* C5, as stated: when a store read or the similarity query raises during
\* recommend_movies or get_similar_movies, the initial lookup of the seed or
\* base vector included, the operation returns an empty list and no
\* exception reaches the caller.
C5_StoreFailureGivesEmptyList ==
    ((ret.op = "recommend" \/ ret.op = "similar") /\ ret.fault # "none") =>
        ret.status = "returned" /\ ret.rows = <<>>

\* C6, as stated: a failure while ensure_vectors_exist processes one ID
\* never aborts the batch: every ID of the list is processed and the call
\* returns its result.
C6_FailureNeverAbortsBatch ==
    ret.op = "ensure" =>
        ret.status = "returned" /\ ret.at = Len(ret.ids) + 1

\* C7: when no listed ID has a stored vector, or the list is empty (and the
\* store answers the lookups), get_user_preference_vector returns None
\* without raising, without taking a mean and without dividing, and
\* recommend_movies returns [] without issuing the similarity query.
C7_NoSignalNoDivision ==
    (/\ ret.op = "recommend"
     /\ \A id \in Range(ret.ids) : vectors[id] = NoVec
     /\ ret.fault # "seed_lookup") =>
        /\ ret.status = "returned"
        /\ ret.pref.value = NoPref
        /\ ~ret.pref.mean
        /\ ~ret.pref.divided
        /\ ~ret.queried
        /\ ret.rows = <<>>

\* recommend_movies returned for two listed IDs without a vector while
\* another movie has one
C7_Witness ==
    /\ QueryReturned("recommend")
    /\ Len(ret.ids) = 2
    /\ \A id \in Range(ret.ids) : vectors[id] = NoVec
    /\ \E id \in Ids : vectors[id] # NoVec
    /\ ret.rows = <<>>

\* The part of the list the running or finished call has gone through.
Processed(c) == SubSeq(c.ids, 1, c.i - 1)

\* C8: in ensure_vectors_exist, every ID without a stored vector whose
\* movie does not exist is appended to failed_ids and counted in failed
\* each time it is reached, no vector is created for it, and handling it
\* raises nothing (an exception that leaves the call is the store's).
C8_MissingMovieRecordedAsFailure ==
    /\ pc = "ensure" =>
          \A id \in Ids \ movies :
              /\ Count(call.result.failed_ids, id) = Count(Processed(call), id)
              /\ call.result.failed >= Count(Processed(call), id)
              /\ vectors[id] = NoVec
    /\ ret.op = "ensure" =>
          /\ ret.status = "raised" => ret.error = "store"
          /\ \A id \in Ids \ movies : vectors[id] = NoVec
          /\ ret.status = "returned" =>
                \A id \in Ids \ movies :
                    /\ Count(ret.result.failed_ids, id) = Count(ret.ids, id)
                    /\ ret.result.failed >= Count(ret.ids, id)

\* a call returned after going through an ID with no movie and an ID whose
\* movie got its vector
C8_Witness ==
    /\ EnsureReturned
    /\ \E id \in Range(ret.ids) : id \notin movies
    /\ ret.result.newly_created = 1
    /\ ret.result.failed = 1

\* C9: whenever ensure_vectors_exist returns, already_exists +
\* newly_created + failed = total = the length of the list (duplicates
\* counted per occurrence), failed = the length of failed_ids, and every
\* element of failed_ids is an ID of the list.
C9_CountsAddUp ==
    EnsureReturned =>
        /\ ret.result.total = Len(ret.ids)
        /\ ret.result.already_exists + ret.result.newly_created
             + ret.result.failed = ret.result.total
        /\ ret.result.failed = Len(ret.result.failed_ids)
        /\ Range(ret.result.failed_ids) \subseteq Range(ret.ids)

\* a call returned with the same ID failed twice
C9_Witness ==
    /\ EnsureReturned
    /\ Len(ret.ids) = 2
    /\ ret.ids[1] = ret.ids[2]
    /\ ret.result.failed = 2

\* The ID the loop of ensure_vectors_exist is about to process.
AtId == call.ids[call.i]
InLoop == pc = "ensure" /\ call.i <= Len(call.ids)

\* C10: a loop iteration of ensure_vectors_exist on an ID that has a stored
\* vector changes no stored vector and does neither the movie lookup nor a
\* generation: it only adds one to already_exists.  An iteration that
\* looks up the movie, generates or writes is on an ID that lacks a vector,
\* and writes no other ID's vector.
C10_ExistingVectorUntouched ==
    [][InLoop =>
        /\ vectors[AtId] # NoVec =>
              /\ vectors' = vectors
              /\ pc' = "ensure" =>
                    /\ call'.result =
                          [call.result EXCEPT !.already_exists = @ + 1]
                    /\ call'.lookups = call.lookups
                    /\ call'.generated = call.generated
        /\ \A id \in Ids \ {AtId} : vectors'[id] = vectors[id]
      ]_vars

\* a call repeated after a failure has returned: the ID that had a vector
\* (one the current model would not produce) was counted, the ID that
\* lacked one was looked up and generated
C10_Witness ==
    /\ EnsureReturned
    /\ ret.again.repeat
    /\ ret.again.failed = 1
    /\ ret.result.already_exists = 1
    /\ ret.result.newly_created = 1
    /\ ret.lookups = 1
    /\ ret.generated = 1
    /\ \E id \in Range(ret.ids) :
          vectors[id] # NoVec /\ vectors[id] # generate_tfidf_vector(id)

\* An operation of the query side has just ended.
QueryEnded == ret = NoRet /\ ret' # NoRet

\* C11: recommend_movies, get_similar_movies and get_user_preference_vector
\* leave the set of movies, the set of stored vectors and every stored
\* vector's value unchanged, whether they return or raise.
C11_QueriesLeaveStoreUnchanged ==
    [][QueryEnded => (movies' = movies /\ vectors' = vectors)]_vars

\* recommend_movies gave up on a failed similarity query for a selected
\* movie that has a vector, with another movie's vector in the store
C11_Witness ==
    /\ QueryReturned("recommend")
    /\ ret.fault = "query"
    /\ \E id \in Range(ret.ids) : vectors[id] # NoVec
    /\ \E id \in Ids \ Range(ret.ids) : vectors[id] # NoVec

C13_SaveIsUpsert ==
    /\ (ret.op = "save_movie_vector" /\ ret.ok) =>
          /\ RowsOf(vectors, ret.movie_id) = {<<ret.movie_id, ret.vector>>}
          /\ \A id \in Ids \ {ret.movie_id} : vectors[id] = ret.before[id]
    /\ \A id \in Ids : Cardinality(RowsOf(vectors, id)) <= 1

\* a save replaced the different vector the movie had, next to another
\* movie's vector
C13_Witness ==
    /\ ret.op = "save_movie_vector"
    /\ ret.ok
    /\ ret.before[ret.movie_id] # NoVec
    /\ ret.before[ret.movie_id] # ret.vector
    /\ \E id \in Ids \ {ret.movie_id} : vectors[id] # NoVec

\* The text of a block: the names joined by one space each.
RECURSIVE BlockText(_)
BlockText(names) ==
    IF Len(names) = 0 THEN ""
    ELSE IF Len(names) = 1 THEN names[1]
    ELSE BlockText(SubSeq(names, 1, Len(names) - 1))
           \o " " \o names[Len(names)]
\* what is put before the next block once `text` has been written
Then(text, written) == IF written THEN text \o " " ELSE text

\* C14: create_movie_text returns, joined by single spaces and in this
\* order, the genre-name block 5 times, the overview 3 times and the
\* keyword-name block 2 times; a block whose source (the genre list, the
\* overview, the keyword list) is empty or absent contributes nothing, and
\* a movie with none of the three gives the empty string.
C14_WeightedTextComposed ==
    ret.op = "create_movie_text" =>
        LET m == ret.movie
            has_g == Len(m.genres) > 0
            has_o == m.overview # None /\ m.overview # ""
            has_k == Len(m.keywords) > 0
            g == BlockText(m.genres)
            o == m.overview
            k == BlockText(m.keywords)
            genres5 == IF has_g
                       THEN g \o " " \o g \o " " \o g \o " " \o g \o " " \o g
                       ELSE ""
            overview3 == IF has_o
                         THEN Then(genres5, has_g) \o o \o " " \o o \o " " \o o
                         ELSE genres5
            keywords2 == IF has_k
                         THEN Then(overview3, has_g \/ has_o) \o k \o " " \o k
                         ELSE overview3
        IN  /\ ret.text = keywords2
            /\ (~has_g /\ ~has_o /\ ~has_k) => ret.text = ""

\* a movie with two genres and two keywords and an empty overview was
\* composed
C14_Witness ==
    /\ ret.op = "create_movie_text"
    /\ ret.movie.genres = <<"g", "h">>
    /\ ret.movie.overview = ""
    /\ ret.movie.keywords = <<"k", "l">>
    /\ ret.text = "g h g h g h g h g h k l k l"

\* C15: while no model is persisted, generate_tfidf_vector called without a
\* vectorizer (the call that has to load the model) raises ValueError to
\* its caller and generate_and_save_vector stores no vector; the call fails
\* in no other case, so it returns a vector again once a model has been
\* saved, and generate_and_save_vector then stores it (the store answering).
C15_ModelMissingFailsVectorization ==
    /\ ret.op = "generate_tfidf_vector" =>
          /\ (~ret.given /\ ~ret.model) =>
                (ret.status = "raised" /\ ret.error = "ValueError")
          /\ ret.status = "raised" => (~ret.given /\ ~ret.model)
    /\ ret.op = "generate_and_save_vector" =>
          /\ ~ret.model => (~ret.ok /\ vectors = ret.before)
          /\ (ret.model /\ ret.fault = "none" /\ ret.movie_id \in movies) =>
                /\ ret.ok
                /\ vectors[ret.movie_id] = generate_tfidf_vector(ret.movie_id)

\* generate_tfidf_vector returned a vector after the caller's previous call
\* had failed and the model had been saved
C15_Witness ==
    /\ ret.op = "generate_tfidf_vector"
    /\ ~ret.given
    /\ ret.earlier_failed
    /\ ret.status = "returned"

AllDone == \A r \in Reqs : pc[r] = "done"
Disjoint == Range(call[1].ids) \cap Range(call[2].ids) = {}
\* the first call alone, then the second call alone, from the store vecs
OneAfterTheOther(first, second, vecs) ==
    LET a == RunEnsure(NewCall(call[first].ids, vecs), vecs, movies,
                       modelSaved)
        b == RunEnsure(NewCall(call[second].ids, a.vectors), a.vectors,
                       movies, modelSaved)
    IN  [vectors |-> b.vectors,
         result |-> [r \in Reqs |-> IF r = first THEN a.result
                                    ELSE b.result]]

\* C17: two ensure_vectors_exist calls running at once on disjoint sets of
\* movie IDs, interleaved in any way, leave the vector store as, and return
\* the counts of, the two calls run one after the other (in either order).
C17_DisjointCallsAsSequential ==
    (AllDone /\ Disjoint) =>
        \A first \in Reqs :
            LET seq == OneAfterTheOther(first, 3 - first, call[1].start)
            IN  /\ vectors = seq.vectors
                /\ \A r \in Reqs : ret[r].result = seq.result[r]

\* both calls created a vector, the first committing while the second was
\* between its existence check and its commit
C17_Witness ==
    /\ AllDone
    /\ Disjoint
    /\ call[1].overlapped
    /\ \A r \in Reqs : ret[r].result.newly_created >= 1

\* C18, as stated: when two requests generate and save a vector for the
\* same movie ID at once, both past the existence check before either
\* commits, both writes are accepted: the store ends with one vector for
\* the ID and neither request reports the ID as failed.
C18_SameIdBothAccepted ==
    AllDone =>
        \A movie_id \in call[1].raced \cup call[2].raced :
            /\ Cardinality(RowsOf(vectors, movie_id)) = 1
            /\ \A r \in Reqs :
                  movie_id \notin Range(ret[r].result.failed_ids)

\* C19: in the /recommend pipeline ensure_vectors_exist has run to
\* completion when recommend_movies is called: at the moment
\* get_user_preference_vector reads the store every requested ID has been
\* processed, and every requested ID that is not in failed_ids has a stored
\* vector; the preference vector in the response is the one of that store.
C19_VectorsReadyBeforePreference ==
    /\ pc = "recommend" =>
          /\ call.vector_result.total = Len(call.ids)
          /\ call.vector_result.already_exists
                 + call.vector_result.newly_created
                 + call.vector_result.failed = Len(call.ids)
          /\ \A id \in Range(call.ids) :
                id \notin Range(call.vector_result.failed_ids)
                    => vectors[id] # NoVec
    /\ (ret.op = "get_recommendations" /\ ret.status_code \in {200, 404}) =>
          /\ ret.pref = get_user_preference_vector(ret.ids, vectors)
          /\ \A id \in Range(ret.ids) :
                id \notin Range(ret.vector_generation.failed_ids)
                    => /\ vectors[id] # NoVec
                       /\ ret.pref.value # NoPref

\* the pipeline generated a vector for one requested movie, failed on
\* another, and recommend_movies is about to read the store
C19_Witness ==
    /\ pc = "recommend"
    /\ call.vector_result.newly_created >= 1
    /\ call.vector_result.failed >= 1

\* the positions of the list ret.ids whose ID has a stored vector
Resolving == {i \in 1..Len(ret.ids) : vectors[ret.ids[i]] # NoVec}
\* component k of the sum of the stored vectors, each taken as often as
\* its ID is listed
SumOfListed(k) ==
    SumTo([id \in Ids |-> IF vectors[id] = NoVec THEN 0
                          ELSE Count(ret.ids, id) * vectors[id][k]],
          NumIds)

\* C20: get_user_preference_vector, when the store answers its lookups,
\* returns without failing; it returns a vector exactly when at least one
\* list entry has a stored vector; that vector is the mean over exactly
\* those entries, one contribution per occurrence in the list; the mean is
\* divided by its norm only when the norm is not zero, and returned as it
\* is otherwise.
C20_PreferenceAggregatesResolvedEntries ==
    (ret.op = "preference" /\ ret.fault = "none") =>
        /\ ret.status = "returned"
        /\ (ret.pref.value # NoPref) <=> (Resolving # {})
        /\ ret.pref.mean <=> (Resolving # {})
        /\ Resolving # {} =>
              /\ ret.pref.value.n = Cardinality(Resolving)
              /\ ret.pref.value.sum = [k \in 1..VECTOR_DIM |-> SumOfListed(k)]
              /\ ret.pref.divided <=> (Norm2(ret.pref.value.sum) # 0)
              /\ ret.pref.value.unit = ret.pref.divided
        /\ Resolving = {} => ~ret.pref.divided

\* of two listed IDs one has no vector and is skipped, the other has the
\* zero vector: the mean is returned without the division
C20_Witness ==
    /\ ret.op = "preference"
    /\ ret.status = "returned"
    /\ Len(ret.ids) = 2
    /\ Cardinality(Resolving) = 1
    /\ Norm2(ret.pref.value.sum) = 0
    /\ ~ret.pref.divided

\* C21, as stated: when the store answers, delete_movie on an existing
\* movie, with or without a stored vector, removes the movie and returns
\* True; after it returned True no vector is stored for the movie ID;
\* delete_movie on a missing ID returns False and changes nothing.
C21_DeleteRemovesMovieAndVector ==
    (ret.op = "delete_movie" /\ ret.fault = "none") =>
        /\ ret.movie_id \in ret.movies_before =>
              /\ ret.ok
              /\ ret.movie_id \notin movies
        /\ ret.ok => vectors[ret.movie_id] = NoVec
        /\ ret.movie_id \notin ret.movies_before =>
              /\ ~ret.ok
              /\ movies = ret.movies_before
              /\ vectors = ret.before

\* C22: once save_movie_to_db has committed the movie and reached the
\* generation of its vector, a failed generation is swallowed: the call
\* returns the movie, not None, and the movie is in the store, with a
\* vector exactly when the generation succeeded; a call for a movie that
\* already exists returns it without fetching metadata and leaves the store
\* as it was.
C22_MovieKeptWhenVectorFails ==
    /\ pc = "vector" => call.movie_id \in movies
    /\ (ret.op = "save_movie_to_db" /\ ret.generated) =>
          /\ ret.status = "returned"
          /\ ret.result = [id |-> ret.movie_id]
          /\ ret.movie_id \in movies
          /\ movies = ret.movies_before \cup {ret.movie_id}
          /\ ret.vector_saved <=> (vectors[ret.movie_id] # NoVec)
          /\ \A id \in Ids \ {ret.movie_id} : vectors[id] = ret.before[id]
    /\ (ret.op = "save_movie_to_db" /\ ret.status = "returned"
           /\ ret.existed) =>
          /\ ret.result = [id |-> ret.movie_id]
          /\ ~ret.fetched
          /\ movies = ret.movies_before
          /\ vectors = ret.before

\* a new movie was saved, the generation of its vector failed, and the
\* movie was returned
C22_Witness ==
    /\ ret.op = "save_movie_to_db"
    /\ ret.generated
    /\ ~ret.vector_saved
    /\ ret.result = [id |-> ret.movie_id]
    /\ ret.movie_id \notin ret.movies_before
    /\ ret.movie_id \in movies

\* the site named by ret.fault was reached and raised
SaveRaised ==
    \/ ret.fault \in {"save_lookup", "commit"}
    \/ ret.fault = "add" /\ ret.before[ret.movie_id] = NoVec

\* C23: when the lookup, the add or the commit of save_movie_vector raises,
\* the call returns False, and whenever it returns False the committed
\* vector store is as it was before the call: no vector added, no stored
\* vector changed.
C23_FailedSaveLeavesStore ==
    ret.op = "save_movie_vector" =>
        /\ SaveRaised => ~ret.ok
        /\ ~ret.ok => vectors = ret.before

\* the commit of an update with a different vector raised, next to a
\* movie without a vector
C23_Witness ==
    /\ ret.op = "save_movie_vector"
    /\ ret.fault = "commit"
    /\ ~ret.ok
    /\ ret.before[ret.movie_id] # NoVec
    /\ ret.before[ret.movie_id] # ret.vector
    /\ \E id \in movies : vectors[id] = NoVec

\* the IDs the running call has given a vector
CreatedIds ==
    {id \in Ids : call.start[id] = NoVec /\ vectors[id] # NoVec}
\* the occurrences, among the list entries processed so far, that found
\* the vector of their ID stored: all of them for an ID that had a vector at
\* the start, and for an ID the call gave a vector those after the
\* occurrence that created it (the ones before it failed)
OccurrencesFoundStored ==
    SumTo([id \in Ids |->
              IF call.start[id] # NoVec THEN Count(Processed(call), id)
              ELSE IF vectors[id] # NoVec
              THEN Count(Processed(call), id)
                     - Count(call.result.failed_ids, id) - 1
              ELSE 0],
          NumIds)

\* C24: at every point of the loop of ensure_vectors_exist, and so when it
\* returns, each ID without a vector at the start whose generation
\* succeeded is counted as newly_created once, at the occurrence that
\* created it, and as already_exists at each later occurrence; an ID
\* that never failed was created at its first occurrence; newly_created
\* does not exceed the number of distinct listed IDs without a vector at
\* the start.
C24_RepeatedIdCreatedOnce ==
    pc = "ensure" =>
        /\ CreatedIds \subseteq Range(Processed(call))
        /\ call.result.newly_created = Cardinality(CreatedIds)
        /\ call.result.already_exists = OccurrencesFoundStored
        /\ \A id \in Range(Processed(call)) :
              (call.start[id] = NoVec
                  /\ id \notin Range(call.result.failed_ids))
                => id \in CreatedIds
        /\ call.result.newly_created
             <= Cardinality({id \in Range(call.ids) : call.start[id] = NoVec})

\* the loop is over a list that names one ID twice: created at the first
\* occurrence, found stored at the second
C24_Witness ==
    /\ pc = "ensure"
    /\ call.i > Len(call.ids)
    /\ Len(call.ids) = 2
    /\ call.ids[1] = call.ids[2]
    /\ call.start[call.ids[1]] = NoVec
    /\ call.result.newly_created = 1
    /\ call.result.already_exists = 1

\* the run of the batch script as it stands: its locals while it runs, what
\* it left behind once it has ended
Batch == IF pc = "idle" THEN ret ELSE call
\* the model the run trained, as save_vectorizer writes it
TrainedFile == PickledFile([Batch.vectorizer EXCEPT !.tokenizer = None])

\* C25: in a batch run the model is trained and persisted before the first
\* vector is written; every vector written was produced by the vectorizer
\* trained in this run, with the file holding that model; a movie's failure
\* does not stop the loop, and at the summary success_count + error_count
\* is the number of movies loaded; without movies nothing is trained and
\* nothing is written.
C25_BatchTrainsPersistsThenWrites ==
    /\ Batch.written # <<>> =>
          /\ Batch.trained
          /\ Batch.saved
          /\ modelSaved
    /\ \A n \in 1..Len(Batch.written) :
          /\ Batch.written[n].by = Batch.vectorizer
          /\ Batch.written[n].by.tokenizer = "KoreanTokenizer"
          /\ Batch.written[n].file = TrainedFile
    /\ ~(Batch.trained /\ Batch.saved) => vectors = Batch.before
    /\ Len(Batch.written) = Batch.success_count
    /\ (pc = "loop") =>
          Batch.success_count + Batch.error_count = Batch.i - 1
    /\ (pc = "idle" /\ ret.status = "returned" /\ ret.movies # <<>>) =>
          /\ ret.at = "summary"
          /\ ret.success_count + ret.error_count = Len(ret.movies)
          /\ Range(ret.movies) = movies
    /\ (pc = "idle" /\ movies = {}) => ret.at = "load"
    /\ (pc = "idle" /\ ret.status = "returned" /\ ret.movies = <<>>) =>
          /\ movies = {}
          /\ ~ret.trained
          /\ ret.file = ret.file_before
          /\ ret.written = <<>>
          /\ vectors = ret.before

\* the run ended with the summary after one movie failed and a later
\* movie's vector was written, over a file that held another model
C25_Witness ==
    /\ pc = "idle"
    /\ ret.at = "summary"
    /\ ret.error_count >= 1
    /\ ret.success_count >= 1
    /\ ret.written[1].movie_id # ret.movies[1]
    /\ Loadable(ret.file_before)
    /\ ret.file # ret.file_before

\* the call of wait_for_db as it stands
Wait == IF pc = "idle" THEN ret ELSE call
\* the positions of the trace that are connection attempts
Attempts == {n \in 1..Len(Wait.trace) : Wait.trace[n] # "sleep"}
WaitReturned(value) ==
    pc = "idle" /\ ret.status = "returned" /\ ret.value = value

\* at most max_retries attempts; nothing follows a successful attempt;
\* True is returned right after a successful attempt; False is returned
\* exactly when the call has ended after max_retries attempts that all
\* failed with an operational error; one sleep stands between two
\* consecutive attempts and none after the last
WaitBounded ==
    /\ Cardinality(Attempts) <= Wait.max_retries
    /\ \A n \in 1..Len(Wait.trace) :
          /\ Wait.trace[n] \in {"connected", "Error"} => n = Len(Wait.trace)
          /\ Wait.trace[n] = "sleep" =>
                n > 1 /\ Wait.trace[n - 1] = "OperationalError"
          /\ (Wait.trace[n] = "OperationalError" /\ n < Len(Wait.trace)) =>
                Wait.trace[n + 1] = "sleep"
    /\ WaitReturned(TRUE) <=>
          (pc = "idle" /\ Wait.trace # <<>>
              /\ Wait.trace[Len(Wait.trace)] = "connected")
    /\ WaitReturned(FALSE) <=>
          /\ pc = "idle"
          /\ Cardinality(Attempts) = Wait.max_retries
          /\ \A n \in Attempts : Wait.trace[n] = "OperationalError"
    /\ pc = "idle" =>
          (Wait.trace # <<>> => Wait.trace[Len(Wait.trace)] # "sleep")

\* C26: wait_for_db ends, after at most max_retries connection attempts;
\* it returns True right after the first successful attempt and attempts
\* nothing more; it returns False exactly when all max_retries attempts
\* failed with an operational error; it sleeps between consecutive
\* attempts and not after the last one.
C26_WaitForDbTerminates ==
    /\ []WaitBounded
    /\ <>(pc = "idle")

\* the call gave up after MaxRetries failed attempts with a sleep between
\* each two
C26_Witness ==
    /\ WaitReturned(FALSE)
    /\ ret.max_retries = MaxRetries
    /\ Cardinality(Attempts) = MaxRetries
    /\ Len(ret.trace) = 2 * MaxRetries - 1

====
